---------------------------- MODULE Spec2Model ----------------------------
(***************************************************************************)
(* A model of word-sage-viewer-2.2.py: the WikiCrawler (visited set, lock, *)
(* clean_html, save_page, crawl_page) run by one or several threads        *)
(* against a small web site.                                               *)
(*                                                                         *)
(* Python strings are sequences of one-character strings, so that          *)
(* startswith, split, urljoin, splitext and safe_folder_name are computed  *)
(* character by character as the code computes them.                       *)
(***************************************************************************)
EXTENDS Naturals, Sequences, FiniteSets, TLC

(***************************************************************************)
(* Program constants.                                                      *)
(***************************************************************************)
BASE_ARCHIVE == <<"w", "i", "k", "i", "_", "a", "r", "c", "h", "i", "v", "e">>

SUBLINK_LIMIT == 5

IMAGE_LIMIT == 5

\* the base of urljoin in crawl_page: "https://en.wikipedia.org/"
BaseOrigin == <<"h", "t", "t", "p", "s", ":", "/", "/", "e", "n", ".", "w", "i", "k", "i", "p", "e", "d", "i", "a", ".", "o", "r", "g">>

\* "https:" (save_page, protocol-relative image sources)
HttpsScheme == <<"h", "t", "t", "p", "s", ":">>

\* "/wiki/" (crawl_page, the article prefix)
WikiPrefix == <<"/", "w", "i", "k", "i", "/">>

PageHtml == <<"p", "a", "g", "e", ".", "h", "t", "m", "l">>

ImagesDir == <<"i", "m", "a", "g", "e", "s">>

ImgStem == <<"i", "m", "g", "_">>

(***************************************************************************)
(* Python string operations.                                               *)
(***************************************************************************)
\* s.startswith(p)
StartsWith(s, p) ==
    /\ Len(s) >= Len(p)
    /\ \A k \in 1..Len(p) : s[k] = p[k]

\* c in s, for a one-character c
Contains(s, c) == \E k \in 1..Len(s) : s[k] = c

\* s[from:] with a 1-based first index
Drop(s, from) == IF from > Len(s) THEN <<>> ELSE SubSeq(s, from, Len(s))

\* the position of the first c in s, or 0
RECURSIVE FindFrom(_, _, _)
FindFrom(s, c, k) ==
    IF k > Len(s) THEN 0
    ELSE IF s[k] = c THEN k
    ELSE FindFrom(s, c, k + 1)

Find(s, c) == FindFrom(s, c, 1)

\* the position of the last c in s, or 0
RECURSIVE RFindFrom(_, _, _)
RFindFrom(s, c, k) ==
    IF k = 0 THEN 0
    ELSE IF s[k] = c THEN k
    ELSE RFindFrom(s, c, k - 1)

RFind(s, c) == RFindFrom(s, c, Len(s))

\* s.split(c): the list of the pieces between the occurrences of c
RECURSIVE Split(_, _)
Split(s, c) ==
    LET k == Find(s, c)
    IN  IF k = 0 THEN <<s>>
        ELSE <<SubSeq(s, 1, k - 1)>> \o Split(Drop(s, k + 1), c)

\* c.join(parts)
RECURSIVE Join(_, _)
Join(parts, c) ==
    IF Len(parts) = 0 THEN <<>>
    ELSE IF Len(parts) = 1 THEN parts[1]
    ELSE parts[1] \o <<c>> \o Join(Tail(parts), c)

\* the decimal digits of a natural number (str(i) in an f-string)
RECURSIVE Digits(_)
Digits(n) ==
    LET d == <<"0", "1", "2", "3", "4", "5", "6", "7", "8", "9">>
    IN  IF n < 10 THEN <<d[n + 1]>>
        ELSE Digits(n \div 10) \o <<d[(n % 10) + 1]>>

AsciiLetters ==
    {"a", "b", "c", "d", "e", "f", "g", "h", "i", "j", "k", "l", "m",
     "n", "o", "p", "q", "r", "s", "t", "u", "v", "w", "x", "y", "z",
     "A", "B", "C", "D", "E", "F", "G", "H", "I", "J", "K", "L", "M",
     "N", "O", "P", "Q", "R", "S", "T", "U", "V", "W", "X", "Y", "Z"}

AsciiDigits == {"0", "1", "2", "3", "4", "5", "6", "7", "8", "9"}

\* letters and digits outside ASCII, for which str.isalnum() is true as well;
\* "U+00E9" stands for the one character e-acute, "U+0663" for an Arabic digit
UnicodeAlnum == {"U+00E9", "U+0663"}

\* c.isalnum()
IsAlnum(c) == c \in AsciiLetters \cup AsciiDigits \cup UnicodeAlnum

(***************************************************************************)
(* os.path                                                                 *)
(***************************************************************************)
\* os.path.join(a, b) on POSIX
PathJoin(a, b) ==
    IF StartsWith(b, <<"/">>) THEN b
    ELSE IF Len(a) = 0 \/ a[Len(a)] = "/" THEN a \o b
    ELSE a \o <<"/">> \o b

\* os.path.splitext(p)[1]: the extension is taken from the last dot of the
\* last path component, unless that dot leads the component
RECURSIVE AllDots(_, _, _)
AllDots(p, from, to) ==
    IF from > to THEN TRUE
    ELSE p[from] = "." /\ AllDots(p, from + 1, to)

SplitExt(p) ==
    LET sep == RFind(p, "/")
        dot == RFind(p, ".")
    IN  IF dot > sep /\ ~AllDots(p, sep + 1, dot) THEN Drop(p, dot) ELSE <<>>

(***************************************************************************)
(* urllib.parse.urljoin(base, url) for the base "https://en.wikipedia.org/"*)
(***************************************************************************)
\* the path of a reference: up to its first "?" or "#"
PathEnd(u) ==
    LET q == Find(u, "?")
        f == Find(u, "#")
    IN  IF q = 0 /\ f = 0 THEN Len(u)
        ELSE IF q = 0 THEN f - 1
        ELSE IF f = 0 THEN q - 1
        ELSE IF q < f THEN q - 1 ELSE f - 1

\* the loop of urljoin over the path segments: ".." pops, "." is dropped
RECURSIVE ResolveDots(_, _)
ResolveDots(segments, resolved) ==
    IF Len(segments) = 0 THEN resolved
    ELSE LET seg == Head(segments)
         IN  IF seg = <<".", ".">>
                THEN ResolveDots(Tail(segments),
                                 IF Len(resolved) = 0 THEN resolved
                                 ELSE SubSeq(resolved, 1, Len(resolved) - 1))
             ELSE IF seg = <<".">>
                THEN ResolveDots(Tail(segments), resolved)
             ELSE ResolveDots(Tail(segments), Append(resolved, seg))

\* the segments without the empty ones between the first and the last
DropEmptyInner(segs) ==
    IF Len(segs) <= 2 THEN segs
    ELSE <<segs[1]>>
         \o SelectSeq(SubSeq(segs, 2, Len(segs) - 1), LAMBDA x : x # <<>>)
         \o <<segs[Len(segs)]>>

ResolvedPath(segments) ==
    LET last == segments[Len(segments)]
        res  == ResolveDots(segments, <<>>)
        full == IF last \in {<<".">>, <<".", ".">>} THEN Append(res, <<>>) ELSE res
        path == Join(full, "/")
    IN  IF path = <<>> THEN <<"/">> ELSE path

\* a reference that carries its own scheme ("https://...")
HasScheme(u) ==
    LET c == Find(u, ":")
    IN  /\ c > 1
        /\ \A k \in 1..(c - 1) : u[k] \in AsciiLetters

urljoin(url) ==
    IF url = <<>> THEN BaseOrigin \o <<"/">>
    ELSE IF HasScheme(url) THEN url
    ELSE IF StartsWith(url, <<"/", "/">>) THEN HttpsScheme \o url
    ELSE LET e    == PathEnd(url)
             path == SubSeq(url, 1, e)
             rest == Drop(url, e + 1)
             segs == IF StartsWith(path, <<"/">>)
                        THEN Split(path, "/")
                        ELSE DropEmptyInner(<<<<>>>> \o Split(path, "/"))
         IN  IF path = <<>> THEN BaseOrigin \o <<"/">> \o rest
             ELSE BaseOrigin \o ResolvedPath(segs) \o rest

(***************************************************************************)
(* HTML documents.  A document is the sequence of its nodes in document    *)
(* order (preorder); a node names its parent by position, 0 for the root.  *)
(* kind is "tag", "text" or "comment" (bs4's Tag, NavigableString and      *)
(* Comment); name is a tag's name, or the data of a text or comment node.  *)
(***************************************************************************)
Tag(name, cls, parent) ==
    [kind |-> "tag", name |-> name, cls |-> cls, hasHref |-> FALSE, href |-> <<>>,
     hasSrc |-> FALSE, src |-> <<>>, parent |-> parent]

Anchor(href, parent) == [Tag("a", {}, parent) EXCEPT !.hasHref = TRUE, !.href = href]

AnchorNoHref(parent) == Tag("a", {}, parent)

Img(src, parent) == [Tag("img", {}, parent) EXCEPT !.hasSrc = TRUE, !.src = src]

ImgNoSrc(parent) == Tag("img", {}, parent)

Text(data, parent) == [Tag(data, {}, parent) EXCEPT !.kind = "text"]

CommentNode(data, parent) == [Tag(data, {}, parent) EXCEPT !.kind = "comment"]

\* i is j or a descendant of j
RECURSIVE InSubtree(_, _, _)
InSubtree(doc, i, j) ==
    IF i = j THEN TRUE
    ELSE IF i = 0 THEN FALSE
    ELSE InSubtree(doc, doc[i].parent, j)

Subtree(doc, j) == {i \in 1..Len(doc) : InSubtree(doc, i, j)}

\* the ascending sequence of the members of a set of positions
RECURSIVE Ascending(_)
Ascending(S) ==
    IF S = {} THEN <<>>
    ELSE LET m == CHOOSE x \in S : \A y \in S : x <= y
         IN  <<m>> \o Ascending(S \ {m})

\* The selector list of clean_html:
\* ".navbox, .metadata, .mw-references-wrap, script, style, .toc, .infobox,
\*  header, footer, .mw-editsection, .sistersitebox"
DenyClasses ==
    {"navbox", "metadata", "mw-references-wrap", "toc", "infobox",
     "mw-editsection", "sistersitebox"}

\* the selector list without its last tag
DenyTags_NoFooter == {"script", "style", "header"}

DenyTags == {"script", "style", "header", "footer"}

\* the element matches one of the selectors of the list
MatchesSelector(node) ==
    /\ node.kind = "tag"
    /\ \/ node.name \in DenyTags
       \/ node.cls \cap DenyClasses # {}

\* A soup is a document and the set of the positions taken out of it.
\* soup.select(...): the matching elements still in the tree, in document order
select(soup) ==
    Ascending({i \in 1..Len(soup.doc) : i \notin soup.gone /\ MatchesSelector(soup.doc[i])})

\* element.decompose() / element.extract(): the element leaves the tree with
\* all of its descendants
decompose(soup, i) == [soup EXCEPT !.gone = @ \cup Subtree(soup.doc, i)]

\* for div in soup.select(...): div.decompose()
RECURSIVE DecomposeAll(_, _)
DecomposeAll(soup, sel) ==
    IF Len(sel) = 0 THEN soup
    ELSE DecomposeAll(decompose(soup, Head(sel)), Tail(sel))

\* soup.find(name): the first element of that name, or 0 (None)
find(soup, name) ==
    LET S == {i \in 1..Len(soup.doc) :
                /\ i \notin soup.gone
                /\ soup.doc[i].kind = "tag"
                /\ soup.doc[i].name = name}
    IN  IF S = {} THEN 0 ELSE CHOOSE x \in S : \A y \in S : x <= y

\* type(x) of a node of the tree, and of None (position 0)
PyType(soup, i) ==
    IF i = 0 THEN "NoneType"
    ELSE IF soup.doc[i].kind = "tag" THEN "Tag"
    ELSE IF soup.doc[i].kind = "comment" THEN "Comment"
    ELSE "NavigableString"

\* isinstance(node, cls): Comment is a subclass of NavigableString
isinstance(soup, i, cls) ==
    \/ PyType(soup, i) = cls
    \/ PyType(soup, i) = "Comment" /\ cls = "NavigableString"

\* soup.Comment: BeautifulSoup has no attribute Comment, so Tag.__getattr__
\* answers with self.find("Comment"), a child-tag lookup; type() of that
SoupCommentType(soup) == PyType(soup, find(soup, "Comment"))

\* the lambda handed to find_all(string=...)
CommentFilter(soup, i) == isinstance(soup, i, SoupCommentType(soup))

\* soup.find_all(string=f): the strings (text and comments) f accepts
find_all_string(soup) ==
    Ascending({i \in 1..Len(soup.doc) :
                 /\ i \notin soup.gone
                 /\ soup.doc[i].kind \in {"text", "comment"}
                 /\ CommentFilter(soup, i)})

\* WikiCrawler.clean_html; html.parser has built the tree `html`
clean_html(html) ==
    LET soup  == [doc |-> html, gone |-> {}]
        soup2 == DecomposeAll(soup, select(soup))
    IN  DecomposeAll(soup2, find_all_string(soup2))

\* soup.find_all("img"): positions in document order
find_all_img(soup) ==
    Ascending({i \in 1..Len(soup.doc) :
                 /\ i \notin soup.gone
                 /\ soup.doc[i].kind = "tag"
                 /\ soup.doc[i].name = "img"})

\* soup.find_all("a", href=True)
find_all_a_href(soup) ==
    Ascending({i \in 1..Len(soup.doc) :
                 /\ i \notin soup.gone
                 /\ soup.doc[i].kind = "tag"
                 /\ soup.doc[i].name = "a"
                 /\ soup.doc[i].hasHref})

\* str(soup): the markup of the tree, as a sequence of tokens
Token(t, node) == [t |-> t, name |-> node.name, cls |-> node.cls,
                   hasHref |-> node.hasHref, href |-> node.href,
                   hasSrc |-> node.hasSrc, src |-> node.src]

VoidTags == {"img", "br", "hr", "meta", "link", "input"}

Children(soup, i) ==
    Ascending({j \in 1..Len(soup.doc) : j \notin soup.gone /\ soup.doc[j].parent = i})

RECURSIVE StrNode(_, _)
RECURSIVE StrNodes(_, _)
StrNode(soup, i) ==
    LET node == soup.doc[i]
    IN  IF node.kind = "text" THEN <<Token("text", node)>>
        ELSE IF node.kind = "comment" THEN <<Token("comment", node)>>
        ELSE IF node.name \in VoidTags THEN <<Token("startend", node)>>
        ELSE <<Token("start", node)>> \o StrNodes(soup, Children(soup, i))
             \o <<Token("end", node)>>

StrNodes(soup, is) ==
    IF Len(is) = 0 THEN <<>>
    ELSE StrNode(soup, Head(is)) \o StrNodes(soup, Tail(is))

str(soup) == StrNodes(soup, Children(soup, 0))

(***************************************************************************)
(* WikiCrawler helpers                                                     *)
(***************************************************************************)
\* WikiCrawler.safe_folder_name
safe_folder_name(title) ==
    [k \in 1..Len(title) |->
        IF IsAlnum(title[k]) \/ title[k] \in {"_", "-"} THEN title[k] ELSE "_"]

\* title = url.split("/")[-1]
TitleOf(url) == LET parts == Split(url, "/") IN parts[Len(parts)]

\* folder = os.path.join(self.base_dir, self.safe_folder_name(title))
FolderOf(title) == PathJoin(BASE_ARCHIVE, safe_folder_name(title))

\* save_page: the source an image is requested from
ResolveSrc(src) ==
    IF StartsWith(src, <<"/", "/">>) THEN HttpsScheme \o src
    ELSE IF StartsWith(src, <<"/">>) THEN BaseOrigin \o src
    ELSE src

\* ext = os.path.splitext(src)[1].split("?")[0]
ExtOf(src) == Split(SplitExt(src), "?")[1]

\* fname = f"img_{i}{ext}"
ImgName(i, ext) == ImgStem \o Digits(i) \o ext

\* the test of line 103 without its second half
Crawlable_PrefixOnly(href) == StartsWith(href, WikiPrefix)

\* crawl_page: href.startswith("/wiki/") and ":" not in href
Crawlable(href) == StartsWith(href, WikiPrefix) /\ ~Contains(href, ":")

(***************************************************************************)
(* The environment: the web sites the crawler is run against.  A world     *)
(* names the site and the top-level calls made on it:                      *)
(*   "rich"  one thread crawling a site whose pages carry boilerplate,     *)
(*           comments, more than IMAGE_LIMIT images, more than             *)
(*           SUBLINK_LIMIT links, cycles, failing pages and two URLs of    *)
(*           the same title;                                               *)
(*   "conc"  NumThreads threads calling crawl_page on the same URL;        *)
(*   "pair"  two threads crawling two pages that link to each other;       *)
(*   "scen"  a seed page of ScenarioLinks links, those at the positions    *)
(*           `bad` not qualifying, every other one a leaf article.         *)
(***************************************************************************)
NumThreads == 2

Threads == 1..NumThreads

\* the raw href "/wiki/<s>" and the URL it is fetched at
W(s) == WikiPrefix \o s

U(s) == BaseOrigin \o W(s)

\* image sources of the sites
Src_a == <<"/", "a", ".", "p", "n", "g">>

Src_b == <<"/", "/", "x", "/", "b", ".", "j", "p", "g">>

Src_c == <<"/", "c", ".", "p", "n", "g", "?", "v", "=", "1", ".", "2">>

Src_d == <<"/", "d", ".", "p", "n", "g">>

Src_e == <<"/", "e", ".", "p", "n", "g">>

Src_f == <<"/", "f", ".", "p", "n", "g">>

Src_g == <<"/", "g", ".", "p", "n", "g">>

Src_y == <<"y", ".", "p", "n", "g">>

Src_z == <<"/", "z", ".", "g", "i", "f">>

\* hrefs that are no article links
OffSite == <<"h", "t", "t", "p", "s", ":", "/", "/", "x", "/">>

FileLink == W(<<"F", ":", "x">>)

NonArticle == <<"/", "w", "/", "B">>

\* the page "M" of the rich site: boilerplate around and inside boilerplate, a
\* comment, an image inside an infobox, and eight links with an href in its body
Doc_M ==
    << Tag("div", {"navbox"}, 0),
       Anchor(W(<<"N">>), 1),
       Tag("div", {"metadata"}, 1),
       CommentNode("c", 0),
       Tag("p", {}, 0),
       Anchor(W(<<"A">>), 5),
       Anchor(FileLink, 5),
       Anchor(NonArticle, 5),
       AnchorNoHref(5),
       Anchor(W(<<"A">>), 5),
       Anchor(W(<<"B">>), 5),
       Anchor(W(<<"M">>), 5),
       Anchor(W(<<"C">>), 5),
       Anchor(W(<<"D">>), 5),
       Tag("div", {"infobox"}, 0),
       Img(Src_z, 15) >>

\* the page "A": eight img elements, the first without src, and one link
Doc_A ==
    << ImgNoSrc(0), Img(Src_a, 0), Img(Src_b, 0), Img(Src_c, 0), Img(Src_d, 0),
       Img(Src_e, 0), Img(Src_f, 0), Img(Src_g, 0),
       Anchor(W(<<"B", "/", "A">>), 0) >>

\* the page "B/A", whose title is "A" as well
Doc_BA == << Img(Src_z, 0), Img(Src_y, 0), Text("t", 0) >>

\* the page "C": its first five article links are visited before it is crawled
Doc_C ==
    << Anchor(W(<<"A">>), 0), Anchor(W(<<"B">>), 0), Anchor(W(<<"M">>), 0),
       Anchor(W(<<"C">>), 0), Anchor(W(<<"A">>), 0), Anchor(W(<<"D">>), 0) >>

\* the page "D" links to "/wiki/E/", an article link that ends with "/"
Doc_D ==
    << Tag("p", {}, 0), Text("t", 1), CommentNode("c", 1), Tag("script", {}, 0),
       Anchor(W(<<"E", "/">>), 0) >>

\* the pages of the site of the concurrent calls
Doc_S == << Img(Src_a, 0), Anchor(W(<<"T">>), 0), Anchor(W(<<"S">>), 0) >>

Doc_T == << Anchor(W(<<"S">>), 0), Text("t", 0) >>

\* the scenario: a seed of ScenarioLinks links, ScenarioBad of them not qualifying
ScenarioLinks == 10

ScenarioBad == 2

ScenarioNames == <<"a", "b", "c", "d", "e", "f", "g", "h", "i", "j", "k", "l">>

\* the k-th link of the seed: the lowest position of `bad` holds an off-site
\* link, the others of `bad` a link into another namespace, and the n-th
\* remaining position the article link "/wiki/<n-th name>"
ScenarioHref(bad, k) ==
    IF k \in bad
      THEN IF \A b \in bad : k <= b THEN OffSite ELSE FileLink
      ELSE W(<<ScenarioNames[Cardinality({j \in 1..k : j \notin bad})]>>)

Doc_Seed(bad) == [k \in 1..ScenarioLinks |-> Anchor(ScenarioHref(bad, k), 0)]

Doc_Leaf == << Text("t", 0), Anchor(OffSite, 0) >>

ScenarioLeaves == {U(<<ScenarioNames[n]>>) : n \in 1..Len(ScenarioNames)}

Worlds ==
    {[kind |-> "rich", bad |-> {}], [kind |-> "conc", bad |-> {}],
     [kind |-> "pair", bad |-> {}]}
    \cup {[kind |-> "scen", bad |-> b] :
            b \in {x \in SUBSET (1..ScenarioLinks) : Cardinality(x) = ScenarioBad}}

\* run_auto_archive: start_pages
start_pages ==
    << <<"/", "w", "i", "k", "i", "/", "M", "a", "t", "h", "e", "m", "a", "t", "i", "c", "s">>,
       <<"/", "w", "i", "k", "i", "/", "C", "h", "e", "m", "i", "c", "a", "l", "_", "s", "u", "b", "s", "t", "a", "n", "c", "e">>,
       <<"/", "w", "i", "k", "i", "/", "U", "n", "i", "t", "e", "d", "_", "K", "i", "n", "g", "d", "o", "m">> >>

\* the pages of the site the window archives: "Mathematics" links to a leaf
\* and to the second start page, and holds an image
Doc_Mathematics ==
    << Tag("p", {}, 0), Text("t", 1), Anchor(W(<<"X">>), 1),
       Anchor(start_pages[2], 1), Img(Src_e, 0) >>

Doc_Chemical == << Tag("p", {}, 0), Text("s", 1), CommentNode("c", 0) >>

Doc_Kingdom == << Img(Src_b, 0), Text("u", 0) >>

\* the statuses a GET of the page at `url` may end with: "200", "404" (any
\* status but 200) or "exc" (requests.get raises)
Responses(w, url) ==
    IF w.kind = "rich" THEN
        IF url \in {U(<<"M">>), U(<<"A">>), U(<<"B", "/", "A">>), U(<<"D">>),
                    U(<<"E", "/">>)} THEN {"200"}
        ELSE IF url = U(<<"C">>) THEN {"200", "exc"}
        ELSE {"404"}
    ELSE IF w.kind = "conc" THEN
        IF url = U(<<"S">>) THEN {"200"}
        ELSE IF url = U(<<"T">>) THEN {"200", "404", "exc"}
        ELSE {"404"}
    ELSE IF w.kind = "pair" THEN
        IF url \in {U(<<"S">>), U(<<"T">>)} THEN {"200"} ELSE {"404"}
    ELSE IF w.kind = "app" THEN
        IF url \in {BaseOrigin \o start_pages[k] : k \in 1..2} \cup {U(<<"X">>)} THEN {"200"}
        ELSE IF url = BaseOrigin \o start_pages[3] THEN {"200", "404"}
        ELSE {"404"}
    ELSE
        IF url = U(<<"Q">>) \/ url \in ScenarioLeaves THEN {"200"} ELSE {"404"}

\* r.text parsed by html.parser, for a page answered with 200
Body(w, url) ==
    IF w.kind = "rich" THEN
        IF url = U(<<"M">>) THEN Doc_M
        ELSE IF url = U(<<"A">>) THEN Doc_A
        ELSE IF url = U(<<"B", "/", "A">>) THEN Doc_BA
        ELSE IF url = U(<<"C">>) THEN Doc_C
        ELSE IF url = U(<<"E", "/">>) THEN Doc_Leaf
        ELSE Doc_D
    ELSE IF w.kind \in {"conc", "pair"} THEN
        IF url = U(<<"S">>) THEN Doc_S ELSE Doc_T
    ELSE IF w.kind = "app" THEN
        IF url = BaseOrigin \o start_pages[1] THEN Doc_Mathematics
        ELSE IF url = BaseOrigin \o start_pages[2] THEN Doc_Chemical
        ELSE IF url = BaseOrigin \o start_pages[3] THEN Doc_Kingdom
        ELSE Doc_Leaf
    ELSE
        IF url = U(<<"Q">>) THEN Doc_Seed(w.bad) ELSE Doc_Leaf

\* the statuses a GET of an image may end with; requests.get raises
\* MissingSchema for a source without a scheme
ImgResponses(src) ==
    IF ~HasScheme(src) THEN {"exc"}
    ELSE IF src = ResolveSrc(Src_a) THEN {"200", "404"}
    ELSE IF src = ResolveSrc(Src_d) THEN {"200", "exc"}
    ELSE {"200"}

\* the top-level crawl_page calls of thread t, in order
Program(w, t) ==
    IF w.kind = "rich" THEN
        IF t = 1 THEN <<W(<<"M">>), W(<<"M">>), <<"w", "i", "k", "i", "/", "D">>>> ELSE <<>>
    ELSE IF w.kind = "conc" THEN
        IF t % 2 = 1 THEN <<W(<<"S">>)>> ELSE <<<<"w", "i", "k", "i", "/", "S">>>>
    ELSE IF w.kind = "pair" THEN
        IF t = 1 THEN <<W(<<"S">>)>> ELSE IF t = 2 THEN <<W(<<"T">>)>> ELSE <<>>
    ELSE IF w.kind = "app" THEN <<>>
    ELSE
        IF t = 1 THEN <<W(<<"Q">>)>> ELSE <<>>

(***************************************************************************)
(* The state of the program.                                               *)
(***************************************************************************)
VARIABLES
    world,      \* the site and the calls made on it
    todo,       \* todo[t]: the top-level crawl_page calls thread t has yet to make
    stack,      \* stack[t]: the crawl_page frames of thread t, innermost last
    lock,       \* WikiCrawler.lock: the thread holding it, or 0
    visited,    \* WikiCrawler.visited
    dirs,       \* the directories of the file system
    files,      \* the files of the file system: path -> content
    log,        \* log[t]: what thread t did, in order (a history of the run)
    input,      \* the argument of a function applied on its own
    output,     \* and its result
    app         \* the WikiApp window and its auto-archive thread

vars == <<world, todo, stack, lock, visited, dirs, files, log, input, output, app>>

crawlVars == <<world, todo, stack, lock, visited, dirs, files, log>>

pureVars == <<input, output>>

appVars == <<app>>

\* an Optional[str]: None, or a path
None == [ok |-> FALSE, path |-> <<>>]

Some(p) == [ok |-> TRUE, path |-> p]

\* one entry of a log
Event(ev, f, n, s, status, val) ==
    [ev |-> ev, url |-> f.url, parent |-> f.parent, depth |-> f.depth,
     late |-> f.late, n |-> n, s |-> s, status |-> status, val |-> val]

\* crawl_page(u) has returned, in some thread
Returned(u) ==
    \E t \in Threads : \E k \in 1..Len(log[t]) :
        log[t][k].ev = "ret" /\ log[t][k].url = u

\* the frame of a call crawl_page(href, depth) made from the page `parent`;
\* line 82 normalizes the URL.  `late` records that a call on the same URL had
\* returned when this one was made.
NewFrame(href, depth, parent) ==
    [url |-> urljoin(href), href |-> href, depth |-> depth, parent |-> parent,
     pc |-> "acquire", li |-> 1, count |-> 0, i |-> 0, img_count |-> 0,
     late |-> Returned(urljoin(href))]

Top(t) == stack[t][Len(stack[t])]

Running(t, pc) == Len(stack[t]) > 0 /\ Top(t).pc = pc

SetTop(t, f) == [stack EXCEPT ![t] = [@ EXCEPT ![Len(@)] = f]]

\* the call is put off: its frame waits under those of the callers
Push_Deferred(stk, t, f) == [stk EXCEPT ![t] = <<f>> \o @]

\* a call: the frame of the callee goes on top of the stack of the thread
Push(stk, t, f) == [stk EXCEPT ![t] = Append(@, f)]

Pop(t) == [stack EXCEPT ![t] = SubSeq(@, 1, Len(@) - 1)]

Logged(t, evs) == [log EXCEPT ![t] = @ \o evs]

\* the soup, title and folders of the frame f (lines 94-96 and 47, 54)
SoupOf(f) == clean_html(Body(world, f.url))

FolderOfFrame(f) == FolderOf(TitleOf(f.url))

ImgFolder(folder) == PathJoin(folder, ImagesDir)

\* a directory path without its trailing separator
DirPath(p) == IF Len(p) > 1 /\ p[Len(p)] = "/" THEN SubSeq(p, 1, Len(p) - 1) ELSE p

\* the directory a file lies in
DirOf(p) == SubSeq(p, 1, RFind(p, "/") - 1)

\* open(path, "w").write(content)
Write(fs, path, content) ==
    [q \in DOMAIN fs \cup {path} |-> IF q = path THEN content ELSE fs[q]]

NoInput == [fn |-> "none", html |-> <<>>, title |-> <<>>]

NoOutput ==
    [done |-> FALSE, soup |-> [doc |-> <<>>, gone |-> {}], page |-> <<>>, name |-> <<>>]

\* WikiApp.__init__ (lines 117-136): nothing archived, nothing searched,
\* nothing shown, the auto-archive thread not started.  pc and page are the
\* position of run_auto_archive and the index of its loop; folder, button and
\* mode are those of the last load_page; observed and cleared are histories of
\* the flag (the values read at line 290, and when it was cleared in a crawl).
NewApp ==
    [auto_archive |-> FALSE, archive_thread |-> 0, pc |-> "idle", page |-> 1,
     pages_archived |-> 0, current_page |-> <<>>, images_downloaded |-> 0,
     progress |-> 0, results |-> {}, text_widget |-> <<>>, image_labels |-> {},
     folder |-> <<>>, button |-> "", mode |-> "", observed |-> <<>>, cleared |-> {}]

\* the state after WikiCrawler() (lines 27-31) and WikiApp(), before any call
Constructed ==
    /\ app = NewApp
    /\ stack = [t \in Threads |-> <<>>]
    /\ lock = 0
    /\ visited = {}
    /\ dirs = {BASE_ARCHIVE}
    /\ files = <<>>
    /\ log = [t \in Threads |-> <<>>]

Init ==
    /\ world \in Worlds
    /\ input = NoInput
    /\ output = NoOutput
    /\ todo = [t \in Threads |-> Program(world, t)]
    /\ Constructed

(***************************************************************************)
(* crawl_page                                                              *)
(***************************************************************************)
\* a top-level call crawl_page(page), depth 0
Call(t) ==
    /\ stack[t] = <<>>
    /\ todo[t] # <<>>
    /\ LET f == NewFrame(Head(todo[t]), 0, <<>>)
       IN  /\ stack' = Push(stack, t, f)
           /\ log' = Logged(t, <<Event("call", f, 0, f.href, "", None)>>)
    /\ todo' = [todo EXCEPT ![t] = Tail(@)]
    /\ UNCHANGED <<world, lock, visited, dirs, files>>
    /\ UNCHANGED <<pureVars, appVars>>

\* a lock that lets every thread in
CanAcquire_NoExclusion(t) == TRUE

\* threading.Lock: acquire blocks while another thread holds the lock
CanAcquire(t) == lock = 0

\* `with self.lock:` is entered
Acquire(t) ==
    /\ Running(t, "acquire")
    /\ CanAcquire(t)
    /\ lock' = t
    /\ stack' = SetTop(t, [Top(t) EXCEPT !.pc = "check"])
    /\ UNCHANGED <<world, todo, visited, dirs, files, log>>
    /\ UNCHANGED <<pureVars, appVars>>

\* `if url in self.visited: return`, which leaves the with block
Check(t) ==
    /\ Running(t, "check")
    /\ LET f == Top(t)
       IN  IF f.url \in visited
             THEN /\ lock' = 0
                  /\ stack' = Pop(t)
                  /\ log' = Logged(t, <<Event("skip", f, 0, <<>>, "", None),
                                        Event("ret", f, 0, <<>>, "", None)>>)
             ELSE /\ stack' = SetTop(t, [f EXCEPT !.pc = "add"])
                  /\ UNCHANGED <<lock, log>>
    /\ UNCHANGED <<world, todo, visited, dirs, files>>
    /\ UNCHANGED <<pureVars, appVars>>

\* an insertion that is lost
SetAdd_Lost(set, url) == set

\* set.add
SetAdd(set, url) == set \cup {url}

\* a with block that reaches over the fetch: the lock is kept
Unlocked_Late(t) == t

\* the lock once the with block of lines 83-87 is left
Unlocked(t) == 0

\* `self.visited.add(url)`, and the with block is left
Add(t) ==
    /\ Running(t, "add")
    /\ visited' = SetAdd(visited, Top(t).url)
    /\ lock' = Unlocked(t)
    /\ stack' = SetTop(t, [Top(t) EXCEPT !.pc = "fetch"])
    /\ UNCHANGED <<world, todo, dirs, files, log>>
    /\ UNCHANGED <<pureVars, appVars>>

\* no except clause: the exception ends the thread
Except_Propagates(t, f, get) ==
    /\ stack' = [stack EXCEPT ![t] = <<>>]
    /\ log' = Logged(t, <<get>>)

\* the except clause of lines 109-111: the exception of the GET `get` is
\* caught in the frame that raised it, and the call returns None
Except(t, f, get) ==
    /\ stack' = Pop(t)
    /\ log' = Logged(t, <<get, Event("ret", f, 0, <<>>, get.status, None)>>)

\* `r = requests.get(url, ...)`: a status other than 200 returns None, an
\* exception is caught by the except clause, which returns None
Fetch(t) ==
    /\ Running(t, "fetch")
    /\ \E r \in Responses(world, Top(t).url) :
         LET f == Top(t)
             get == Event("get", f, 0, <<>>, r, None)
         IN  IF r = "200"
               THEN /\ stack' = SetTop(t, [f EXCEPT !.pc = "save"])
                    /\ log' = Logged(t, <<get>>)
             ELSE IF r = "exc"
               THEN Except(t, f, get)
               ELSE /\ stack' = Pop(t)
                    /\ log' = Logged(t, <<get, Event("ret", f, 0, <<>>, r, None)>>)
    /\ UNCHANGED <<world, todo, lock, visited, dirs, files>>
    /\ UNCHANGED <<pureVars, appVars>>

(***************************************************************************)
(* save_page                                                               *)
(***************************************************************************)
\* lines 47-57: the folder, page.html, the images folder
SaveHtml(t) ==
    /\ Running(t, "save")
    /\ LET f      == Top(t)
           folder == FolderOfFrame(f)
       IN  /\ dirs' = dirs \cup {DirPath(folder), DirPath(ImgFolder(folder))}
           /\ files' = Write(files, PathJoin(folder, PageHtml),
                             [kind |-> "html", data |-> str(SoupOf(f))])
           /\ stack' = SetTop(t, [f EXCEPT !.pc = "images", !.i = 0, !.img_count = 0])
           /\ log' = Logged(t, <<Event("save", f, 0, folder, "", None)>>)
    /\ UNCHANGED <<world, todo, lock, visited>>
    /\ UNCHANGED <<pureVars, appVars>>

\* the loop test of line 59, off by one
CapReached_OffByOne(img_count) == img_count > IMAGE_LIMIT

\* the loop test of line 59
CapReached(img_count) == img_count >= IMAGE_LIMIT

\* files numbered by the count of the downloads
FileIndex_ByCount(i, img_count) == img_count

\* the index in the name of the file of line 72
FileIndex(i, img_count) == i

\* every request counted
CountAfter_Always(img_count, r) == img_count + 1

\* img_count after the request of one image: line 75 is reached on 200 only
CountAfter(img_count, r) == IF r = "200" THEN img_count + 1 ELSE img_count

\* one iteration of `for i, img in enumerate(images)` (lines 58-78), or its end
ImageStep(t) ==
    /\ Running(t, "images")
    /\ LET f      == Top(t)
           soup   == SoupOf(f)
           images == find_all_img(soup)
           folder == FolderOfFrame(f)
           next   == [f EXCEPT !.i = f.i + 1]
       IN  IF f.i >= Len(images) \/ CapReached(f.img_count)
             THEN \* the loop ends or breaks: save_page returns folder
                  /\ stack' = SetTop(t, [f EXCEPT !.pc = "links", !.li = 1, !.count = 0])
                  /\ UNCHANGED <<files, log>>
           ELSE LET img == soup.doc[images[f.i + 1]]
                IN  IF ~img.hasSrc \/ img.src = <<>>
                      THEN \* `if not src: continue`
                           /\ stack' = SetTop(t, next)
                           /\ UNCHANGED <<files, log>>
                    ELSE LET src == ResolveSrc(img.src)
                         IN  \E r \in ImgResponses(src) :
                               IF r = "200"
                                 THEN LET fname == ImgName(FileIndex(f.i, f.img_count), ExtOf(src))
                                      IN  /\ files' = Write(files,
                                                PathJoin(ImgFolder(folder), fname),
                                                [kind |-> "image", data |-> src])
                                          /\ stack' = SetTop(t, [next EXCEPT !.img_count = CountAfter(@, r)])
                                          /\ log' = Logged(t, <<Event("img", f, f.i, src, r, Some(fname))>>)
                                 ELSE /\ stack' = SetTop(t, [next EXCEPT !.img_count = CountAfter(@, r)])
                                      /\ log' = Logged(t, <<Event("img", f, f.i, src, r, None)>>)
                                      /\ UNCHANGED files
    /\ UNCHANGED <<world, todo, lock, visited, dirs>>
    /\ UNCHANGED <<pureVars, appVars>>

(***************************************************************************)
(* crawl_page, the sublinks (lines 98-108)                                 *)
(***************************************************************************)
\* the loop left as well when the auto-archive flag is cleared
FanOutReached_OrPaused(count) == count >= SUBLINK_LIMIT \/ ~app.auto_archive

\* the test of line 104, off by one
FanOutReached_OffByOne(count) == count > SUBLINK_LIMIT

\* the test of line 104
FanOutReached(count) == count >= SUBLINK_LIMIT

\* a count of the links that were not visited yet
CountOnCall_UnvisitedOnly(count, url) == IF url \in visited THEN count ELSE count + 1

\* `count += 1` (line 106), before the call on the link at `url`
CountOnCall(count, url) == count + 1

\* one iteration of `for link in links`, or its end and `return folder`
LinkStep(t) ==
    /\ Running(t, "links")
    /\ LET f      == Top(t)
           soup   == SoupOf(f)
           links  == find_all_a_href(soup)
           folder == FolderOfFrame(f)
       IN  IF f.li > Len(links)
             THEN /\ stack' = Pop(t)
                  /\ log' = Logged(t, <<Event("ret", f, 0, <<>>, "200", Some(folder))>>)
           ELSE LET href == soup.doc[links[f.li]].href
                IN  IF Crawlable(href)
                      THEN IF FanOutReached(f.count)
                             THEN \* break
                                  /\ stack' = Pop(t)
                                  /\ log' = Logged(t, <<Event("ret", f, 0, <<>>, "200", Some(folder))>>)
                             ELSE LET child == NewFrame(href, f.depth + 1, f.url)
                                      count == CountOnCall(f.count, child.url)
                                  IN  /\ stack' = Push(SetTop(t, [f EXCEPT !.li = @ + 1,
                                                                           !.count = count]),
                                                       t, child)
                                      /\ log' = Logged(t, <<Event("call", child, count, href, "", None)>>)
                      ELSE /\ stack' = SetTop(t, [f EXCEPT !.li = @ + 1])
                           /\ UNCHANGED log
    /\ UNCHANGED <<world, todo, lock, visited, dirs, files>>
    /\ UNCHANGED <<pureVars, appVars>>

Next ==
    \E t \in Threads :
        \/ Call(t)
        \/ Acquire(t)
        \/ Check(t)
        \/ Add(t)
        \/ Fetch(t)
        \/ SaveHtml(t)
        \/ ImageStep(t)
        \/ LinkStep(t)

Spec == Init /\ [][Next]_vars

\* the steps of the thread t
ThreadStep(t) ==
    \/ Call(t)
    \/ Acquire(t)
    \/ Check(t)
    \/ Add(t)
    \/ Fetch(t)
    \/ SaveHtml(t)
    \/ ImageStep(t)
    \/ LinkStep(t)

\* the thread t can take a step: it has a call to make, or it is in a call
\* and waits for nothing but the lock (every request is answered)
CanStep(t) ==
    \/ stack[t] = <<>> /\ todo[t] # <<>>
    \/ /\ stack[t] # <<>>
       /\ Top(t).pc = "acquire" => CanAcquire(t)

\* weak fairness of the steps of the thread t, its enabling condition written
\* out: a thread that can take a step from some moment on takes one
Fair(t) == []<>(~CanStep(t)) \/ []<><<ThreadStep(t)>>_vars

\* the interpreter switches between the threads: none of them is starved
SpecFair == Spec /\ \A t \in Threads : Fair(t)

(***************************************************************************)
(* clean_html applied on its own, to every document of at most MaxNodes    *)
(* nodes built from the elements of the selector list, a plain div, a      *)
(* comment, a text and an image.                                           *)
(***************************************************************************)
MaxNodes == 3

\* the classes and the tag names of the elements of a MediaWiki page
PageClasses ==
    {"navbox", "metadata", "mw-references-wrap", "toc", "infobox",
     "mw-editsection", "sistersitebox"}

PageTags == {"script", "style", "header", "footer"}

\* the nodes a document may hold under the parent p
NodeChoices(p) ==
    {Tag("div", {c}, p) : c \in PageClasses}
    \cup {Tag(n, {}, p) : n \in PageTags}
    \cup {Tag("div", {}, p), CommentNode("c", p), Text("t", p), Img(Src_e, p)}

\* html.parser gives children to a container element only; the content of
\* script and style is text
CanContain(parent, child) ==
    /\ parent.kind = "tag"
    /\ parent.name \notin VoidTags
    /\ parent.name \in {"script", "style"} => child.kind = "text"

\* the node x may follow the document d: its parent is the root, the last
\* node or an ancestor of the last node (document order), and may hold it
RECURSIVE Ancestors(_, _)
Ancestors(d, i) == IF i = 0 THEN {} ELSE {i} \cup Ancestors(d, d[i].parent)

Extends(d, x) ==
    \/ x.parent = 0
    \/ /\ x.parent \in Ancestors(d, Len(d))
       /\ CanContain(d[x.parent], x)

InitClean ==
    /\ world = [kind |-> "rich", bad |-> {}]
    /\ todo = [t \in Threads |-> <<>>]
    /\ Constructed
    /\ input = [NoInput EXCEPT !.fn = "clean_html"]
    /\ output = NoOutput

\* html.parser reads one more node of the page: any node that may follow
ParseNode ==
    /\ input.fn = "clean_html"
    /\ ~output.done
    /\ Len(input.html) < MaxNodes
    /\ \E p \in 0..Len(input.html) : \E x \in NodeChoices(p) :
         /\ Extends(input.html, x)
         /\ input' = [input EXCEPT !.html = Append(@, x)]
    /\ UNCHANGED <<crawlVars, appVars, output>>

\* soup = self.clean_html(r.text), and the text save_page writes from it
ApplyClean ==
    /\ input.fn = "clean_html"
    /\ ~output.done
    /\ LET soup == clean_html(input.html)
       IN  output' = [NoOutput EXCEPT !.done = TRUE, !.soup = soup, !.page = str(soup)]
    /\ UNCHANGED <<crawlVars, appVars, input>>

NextClean == ParseNode \/ ApplyClean

SpecClean == InitClean /\ [][NextClean]_vars

(***************************************************************************)
(* safe_folder_name applied on its own, to every title of at most MaxTitle *)
(* characters over TitleChars.                                             *)
(***************************************************************************)
MaxTitle == 3

\* an ASCII letter of each case, a digit, the two characters kept as they
\* are, ASCII punctuation, and a letter and a digit outside ASCII
TitleChars == {"a", "Z", "7", "_", "-", " ", ".", "/", "%", "U+00E9", "U+0663"}

InitName ==
    /\ world = [kind |-> "rich", bad |-> {}]
    /\ todo = [t \in Threads |-> <<>>]
    /\ Constructed
    /\ input = [NoInput EXCEPT !.fn = "safe_folder_name"]
    /\ output = NoOutput

\* the title grows by one character
ReadChar ==
    /\ input.fn = "safe_folder_name"
    /\ ~output.done
    /\ Len(input.title) < MaxTitle
    /\ \E c \in TitleChars : input' = [input EXCEPT !.title = Append(@, c)]
    /\ UNCHANGED <<crawlVars, appVars, output>>

\* self.safe_folder_name(title)
ApplySafeFolderName ==
    /\ input.fn = "safe_folder_name"
    /\ ~output.done
    /\ output' = [NoOutput EXCEPT !.done = TRUE, !.name = safe_folder_name(input.title)]
    /\ UNCHANGED <<crawlVars, appVars, input>>

NextName == ReadChar \/ ApplySafeFolderName

SpecName == InitName /\ [][NextName]_vars

(***************************************************************************)
(* WikiApp: the auto-archive thread (run_auto_archive) and the viewer      *)
(* (search, load_page).  The handlers of the window run one at a time in   *)
(* the main loop; the archive thread runs beside them.  The styling of     *)
(* the widgets is left out.                                                *)
(***************************************************************************)
\* the thread started by toggle_auto_archive
ArchiveThread == 1

\* the pages counted by the statistics when the user stops loading pages
MaxLoads == 2

\* what the user types in the search entry

Queries == {<<>>, <<"X">>, <<"m", "a">>}

\* os.path.basename(p)
Basename(p) == Drop(p, RFind(p, "/") + 1)

\* s.lower(), on the ASCII letters
Lower(s) ==
    LET up  == <<"A", "B", "C", "D", "E", "F", "G", "H", "I", "J", "K", "L", "M", "N",
               "O", "P", "Q", "R", "S", "T", "U", "V", "W", "X", "Y", "Z">>
        low == <<"a", "b", "c", "d", "e", "f", "g", "h", "i", "j", "k", "l", "m", "n",
               "o", "p", "q", "r", "s", "t", "u", "v", "w", "x", "y", "z">>
    IN  [k \in 1..Len(s) |->
           IF \E j \in 1..Len(up) : up[j] = s[k]
             THEN low[CHOOSE j \in 1..Len(up) : up[j] = s[k]]
             ELSE s[k]]

\* q in s
IsSubstring(q, s) ==
    \E k \in 0..(Len(s) - Len(q)) : SubSeq(s, k + 1, k + Len(q)) = q

\* s.endswith(p)
EndsWith(s, p) == Len(s) >= Len(p) /\ SubSeq(s, Len(s) - Len(p) + 1, Len(s)) = p

\* os.listdir(d): the names of the directories and of the files lying in d
ListDir(d) ==
    {Basename(x) : x \in {y \in dirs \cup DOMAIN files : y # d /\ DirOf(y) = d}}

\* update_stats(page, images=0)
UpdateStats(a, page) ==
    [a EXCEPT !.pages_archived = @ + 1, !.current_page = page]

\* the user clicks the Auto-Archive checkbutton: the variable flips, then
\* toggle_auto_archive starts the thread if the flag is set and no thread was
\* ever started.  `cleared` records, for the start page being crawled, the
\* number of page requests made when the flag was first cleared.
ToggleAutoArchive ==
    /\ LET flag   == ~app.auto_archive
           start  == flag /\ app.archive_thread = 0
           during == /\ ~flag
                     /\ app.pc = "crawl"
                     /\ stack[ArchiveThread] # <<>>
                     /\ \A c \in app.cleared : c.page # app.page
           gets   == Cardinality({k \in 1..Len(log[ArchiveThread]) :
                                     log[ArchiveThread][k].ev = "get"})
       IN  app' = [app EXCEPT
                     !.auto_archive = flag,
                     !.archive_thread = IF start THEN ArchiveThread ELSE @,
                     !.pc = IF start THEN "loop" ELSE @,
                     !.cleared = IF during
                                   THEN @ \cup {[page |-> app.page, gets |-> gets]}
                                   ELSE @]
    /\ UNCHANGED <<crawlVars, pureVars>>

\* `if not self.auto_archive.get()` (line 290)
Paused == ~app.auto_archive

\* run_auto_archive, the head of `for page in start_pages` (lines 289-293):
\* the loop ends, or breaks on the flag, or calls crawl_page(page)
RunLoop ==
    /\ app.pc = "loop"
    /\ IF app.page > Len(start_pages)
         THEN /\ app' = [app EXCEPT !.pc = "done"]
              /\ UNCHANGED <<stack, log>>
         ELSE IF Paused
         THEN /\ app' = [app EXCEPT !.pc = "done", !.observed = Append(@, app.auto_archive)]
              /\ UNCHANGED <<stack, log>>
         ELSE LET f == NewFrame(start_pages[app.page], 0, <<>>)
              IN  /\ stack' = Push(stack, ArchiveThread, f)
                  /\ log' = Logged(ArchiveThread, <<Event("call", f, 0, f.href, "", None)>>)
                  /\ app' = [app EXCEPT !.pc = "crawl",
                                        !.observed = Append(@, app.auto_archive)]
    /\ UNCHANGED <<world, todo, lock, visited, dirs, files>>
    /\ UNCHANGED pureVars

\* run_auto_archive, after crawl_page has returned `folder` (lines 293-297)
RunAfter ==
    /\ app.pc = "crawl"
    /\ stack[ArchiveThread] = <<>>
    /\ LET folder == log[ArchiveThread][Len(log[ArchiveThread])].val
           next   == [app EXCEPT !.pc = "loop", !.page = @ + 1]
       IN  app' = IF folder.ok
                    THEN [UpdateStats(next, Basename(folder.path)) EXCEPT !.progress = 100]
                    ELSE next
    /\ UNCHANGED <<crawlVars, pureVars>>

\* search (lines 188-207): a row of three buttons for every directory of
\* BASE_ARCHIVE whose lowered name holds the lowered query.  The rows are
\* kept as a set: os.listdir gives them in no particular order.
Search ==
    /\ \E typed \in Queries :
         LET query   == Lower(typed)
             results == {PathJoin(BASE_ARCHIVE, folder) :
                           folder \in {n \in ListDir(BASE_ARCHIVE) :
                                          /\ PathJoin(BASE_ARCHIVE, n) \in dirs
                                          /\ IsSubstring(query, Lower(n))}}
         IN  app' = [app EXCEPT !.results = results]
    /\ UNCHANGED <<crawlVars, pureVars>>

\* the three buttons of a row
Buttons == {"Default", "*text", "*image"}

\* the mode a button passes to load_page (lines 202-207)
ModeOf(button) ==
    IF button = "Default" THEN "default"
    ELSE IF button = "*text" THEN "text"
    ELSE "image"

Newline == Token("text", Text("\n", 0))

\* BeautifulSoup(content, "html.parser").get_text(separator="\n"): the
\* strings of the markup joined by newlines; text that is adjacent in the
\* markup is one string, comments are left out
RECURSIVE GetTextFrom(_, _, _)
GetTextFrom(content, k, out) ==
    IF k > Len(content) THEN out
    ELSE IF content[k].t # "text" THEN GetTextFrom(content, k + 1, out)
    ELSE LET sep == IF out = <<>> \/ (k > 1 /\ content[k - 1].t = "text")
                      THEN <<>> ELSE <<Newline>>
         IN  GetTextFrom(content, k + 1, out \o sep \o <<Token("text", Text(content[k].name, 0))>>)

get_text(content) == GetTextFrom(content, 1, <<>>)

\* the extensions of the files load_page shows
ImageExts ==
    {<<".", "p", "n", "g">>, <<".", "j", "p", "g">>, <<".", "j", "p", "e", "g">>,
     <<".", "g", "i", "f">>}

\* load_page(folder, mode) (lines 229-267); folder and mode keep the
\* arguments of the call
load_page(folder, mode) ==
    LET html_file == PathJoin(folder, PageHtml)
        img_dir   == PathJoin(folder, ImagesDir)
        listing   == IF img_dir \in dirs THEN ListDir(img_dir) ELSE {}
        cleared   == [app EXCEPT !.text_widget = <<>>, !.image_labels = {},
                                 !.mode = mode, !.folder = folder]
    IN  IF html_file \notin DOMAIN files THEN cleared
        ELSE LET content == files[html_file].data
                 shown   ==
                    IF mode = "*text"
                      THEN [cleared EXCEPT !.text_widget = get_text(content)]
                    ELSE IF mode = "*image"
                      THEN [cleared EXCEPT !.image_labels =
                              {fname \in listing :
                                 \E e \in ImageExts : EndsWith(Lower(fname), e)}]
                    ELSE [cleared EXCEPT !.text_widget = content]
             IN  [UpdateStats(shown, Basename(folder)) EXCEPT !.progress = 100]

\* the user clicks one of the buttons of a row of the results
LoadPage ==
    /\ app.pages_archived < MaxLoads
    /\ \E folder \in app.results : \E button \in Buttons :
         app' = [load_page(folder, ModeOf(button)) EXCEPT !.button = button]
    /\ UNCHANGED <<crawlVars, pureVars>>

InitApp ==
    /\ world = [kind |-> "app", bad |-> {}]
    /\ todo = [t \in Threads |-> <<>>]
    /\ input = NoInput
    /\ output = NoOutput
    /\ Constructed

NextApp ==
    \/ ToggleAutoArchive
    \/ RunLoop
    \/ RunAfter
    \/ \E t \in Threads :
          \/ Acquire(t)
          \/ Check(t)
          \/ Add(t)
          \/ Fetch(t)
          \/ SaveHtml(t)
          \/ ImageStep(t)
          \/ LinkStep(t)

SpecApp == InitApp /\ [][NextApp]_vars

(***************************************************************************)
(* The viewer on its own: the window is opened on the archive that earlier *)
(* runs of the program left on the disk, and the user searches and loads   *)
(* pages without starting the auto-archive.                                *)
(***************************************************************************)
\* the pages of the site: each may answer 200 or not in an earlier run
ArchivedBefore ==
    {BaseOrigin \o start_pages[k] : k \in 1..Len(start_pages)} \cup {U(<<"X">>)}

\* the sets of pages an earlier run may have archived: the leaf "X" is
\* reached through "Mathematics" only
ArchivesBefore ==
    {urls \in SUBSET ArchivedBefore :
        U(<<"X">>) \in urls => BaseOrigin \o start_pages[1] \in urls}

\* the image files save_page writes for the images from position i on, every
\* download answering 200 (lines 58-78)
RECURSIVE ImagesSaved(_, _, _, _)
ImagesSaved(soup, images, i, img_count) ==
    IF i >= Len(images) \/ CapReached(img_count) THEN {}
    ELSE LET img == soup.doc[images[i + 1]]
         IN  IF ~img.hasSrc \/ img.src = <<>>
               THEN ImagesSaved(soup, images, i + 1, img_count)
               ELSE LET src == ResolveSrc(img.src)
                    IN  {[fname |-> ImgName(FileIndex(i, img_count), ExtOf(src)), src |-> src]}
                        \cup ImagesSaved(soup, images, i + 1, CountAfter(img_count, "200"))

\* the directories and the files save_page leaves for the pages of `urls`
\* (no two of them share a folder)
DirsLeft(urls) ==
    {BASE_ARCHIVE}
    \cup UNION {{DirPath(FolderOf(TitleOf(u))), DirPath(ImgFolder(FolderOf(TitleOf(u))))} :
                  u \in urls}

FilesLeft(urls) ==
    LET soup(u)   == clean_html(Body([kind |-> "app", bad |-> {}], u))
        folder(u) == FolderOf(TitleOf(u))
        imgs(u)   == ImagesSaved(soup(u), find_all_img(soup(u)), 0, 0)
        pages     == {PathJoin(folder(u), PageHtml) : u \in urls}
        images    == UNION {{PathJoin(ImgFolder(folder(u)), x.fname) : x \in imgs(u)} :
                              u \in urls}
        owner(f)  == CHOOSE u \in urls :
                        \/ f = PathJoin(folder(u), PageHtml)
                        \/ \E x \in imgs(u) : f = PathJoin(ImgFolder(folder(u)), x.fname)
    IN  [f \in pages \cup images |->
           IF f \in pages
             THEN [kind |-> "html", data |-> str(soup(owner(f)))]
             ELSE [kind |-> "image",
                   data |-> (CHOOSE x \in imgs(owner(f)) :
                               f = PathJoin(ImgFolder(folder(owner(f))), x.fname)).src]]

InitViewer ==
    /\ world = [kind |-> "app", bad |-> {}]
    /\ todo = [t \in Threads |-> <<>>]
    /\ input = NoInput
    /\ output = NoOutput
    /\ app = NewApp
    /\ stack = [t \in Threads |-> <<>>]
    /\ lock = 0
    /\ visited = {}
    /\ log = [t \in Threads |-> <<>>]
    /\ \E urls \in ArchivesBefore :
          /\ dirs = DirsLeft(urls)
          /\ files = FilesLeft(urls)

NextViewer == Search \/ LoadPage

SpecViewer == InitViewer /\ [][NextViewer]_vars

(***************************************************************************)
(* Reading the logs.                                                       *)
(***************************************************************************)
\* the places of the logs, and the entry at a place
Places == UNION {{<<t, k>> : k \in 1..Len(log[t])} : t \in Threads}

At(p) == log[p[1]][p[2]]

\* the places of the entries of one kind about one URL
PlacesOf(ev, u) == {p \in Places : At(p).ev = ev /\ At(p).url = u}

\* every URL a log mentions
LoggedUrls == {At(p).url : p \in Places}

\* every thread has made its calls and all of them have returned
AllDone == \A t \in Threads : stack[t] = <<>> /\ todo[t] = <<>>

\* the predicate of the claims on links: the raw href starts with "/wiki/"
\* and holds no ":"
IsArticleHref(h) ==
    /\ Len(h) >= 6
    /\ SubSeq(h, 1, 6) = <<"/", "w", "i", "k", "i", "/">>
    /\ \A k \in 1..Len(h) : h[k] # ":"

(***************************************************************************)
(* C1: concurrent calls on one URL                                         *)
(***************************************************************************)
\* the thread's call passed the visited check and issued the page GET
PassedCheck(t, u) == \E k \in 1..Len(log[t]) : log[t][k].ev = "get" /\ log[t][k].url = u

\* the thread's call was skipped: it returned None and did nothing else
SkippedOnly(t, u) ==
    /\ Len(log[t]) = 3
    /\ log[t][1].ev = "call" /\ log[t][1].url = u
    /\ log[t][2].ev = "skip" /\ log[t][2].url = u
    /\ log[t][3].ev = "ret" /\ log[t][3].url = u /\ log[t][3].val = None

\* C1: in every reachable state at most one page GET has been issued for each
\* normalized URL; and once the NumThreads concurrent calls on the same URL
\* have returned, exactly one of them passed the visited check and issued the
\* GET, and each of the others returned None having issued no request.
C1_OneGetPerUrl ==
    /\ \A u \in LoggedUrls : Cardinality(PlacesOf("get", u)) <= 1
    /\ (world.kind = "conc" /\ AllDone) =>
          LET u == urljoin(W(<<"S">>))
          IN  /\ Cardinality({t \in Threads : PassedCheck(t, u)}) = 1
              /\ \A t \in Threads : ~PassedCheck(t, u) => SkippedOnly(t, u)

\* the concurrent calls have all returned, one of them skipped while the
\* winner had not yet returned when the loser made its call
C1_Witness ==
    /\ world.kind = "conc"
    /\ AllDone
    /\ \E t \in Threads : SkippedOnly(t, urljoin(W(<<"S">>))) /\ ~log[t][1].late

(***************************************************************************)
(* C2: a second crawl_page(u)                                              *)
(***************************************************************************)
\* C2: a call crawl_page(u) made after a call crawl_page(u) has returned
\* (whatever that one returned) never gets past the visited check: it issues
\* no page or image request, writes no file and returns None; and a URL whose
\* call has returned is in the visited set ever after.
C2_SecondCallIsNoOp ==
    /\ \A t \in Threads : \A k \in 1..Len(stack[t]) :
          stack[t][k].late => stack[t][k].pc \in {"acquire", "check"}
    /\ \A p \in Places :
          At(p).late =>
             /\ At(p).ev \in {"call", "skip", "ret"}
             /\ At(p).ev = "ret" => At(p).val = None
    /\ \A p \in Places : At(p).ev = "ret" => At(p).url \in visited

\* second calls have returned, after a first call that archived the page and
\* after a first call whose fetch had failed
C2_Witness ==
    /\ \E p \in Places : At(p).late /\ At(p).ev = "ret"
                         /\ \E q \in PlacesOf("ret", At(p).url) : At(q).val.ok
    /\ \E p \in Places : At(p).late /\ At(p).ev = "ret"
                         /\ \E q \in PlacesOf("get", At(p).url) : At(q).status # "200"

(***************************************************************************)
(* C3: the fan-out of a page                                               *)
(***************************************************************************)
\* the recursive calls made from the page u
CallsFrom(u) == {p \in Places : At(p).ev = "call" /\ At(p).depth > 0 /\ At(p).parent = u}

\* C3: at most SUBLINK_LIMIT (5) recursive calls are made from a page, each on
\* a link whose raw href starts with "/wiki/" and holds no ":"; the count of a
\* call is the number of calls made from the page so far (links that do not
\* match are not counted); and every page GET is that of a top-level call or
\* of a matching link.
C3_FanOut ==
    /\ \A u \in LoggedUrls : Cardinality(CallsFrom(u)) <= 5
    /\ \A p \in Places :
          (At(p).ev = "call" /\ At(p).depth > 0) =>
             /\ IsArticleHref(At(p).s)
             /\ At(p).n <= 5
             /\ At(p).n = Cardinality({q \in CallsFrom(At(p).parent) :
                                         q[1] = p[1] /\ q[2] <= p[2]})
    /\ \A p \in Places :
          At(p).ev = "get" =>
             \E k \in 1..p[2] :
                /\ log[p[1]][k].ev = "call"
                /\ log[p[1]][k].url = At(p).url
                /\ log[p[1]][k].depth = 0 \/ IsArticleHref(log[p[1]][k].s)
    /\ \A p \in Places :
          At(p).ev = "get" =>
             At(p).url \notin {urljoin(FileLink), urljoin(NonArticle), urljoin(OffSite)}

\* the page "M", which holds six article links (one of them twice) and links
\* that do not match, has returned after five recursive calls
C3_Witness ==
    /\ world.kind = "rich"
    /\ \E p \in PlacesOf("ret", urljoin(W(<<"M">>))) : At(p).val.ok
    /\ Cardinality(CallsFrom(urljoin(W(<<"M">>)))) = 5

(***************************************************************************)
(* C4: the scenario of the seed page                                       *)
(***************************************************************************)
\* the links of the seed that qualify, in document order
ScenarioQualifying ==
    SelectSeq([k \in 1..ScenarioLinks |-> Doc_Seed(world.bad)[k].href], IsArticleHref)

\* the URLs of the seed and of its first five qualifying links
ScenarioExpected ==
    {BaseOrigin \o W(<<"Q">>)} \cup {BaseOrigin \o ScenarioQualifying[k] : k \in 1..5}

\* the page.html of the page at "/wiki/<one character>"
PageFileOf(u) == BASE_ARCHIVE \o <<"/", u[Len(u)], "/">> \o PageHtml

\* C4: when the crawl of the seed page (ScenarioLinks - ScenarioBad = 8 article
\* links, ScenarioBad = 2 links that do not qualify, every page answering 200,
\* the descendants without article links) has returned on a fresh crawler, the
\* pages archived are the seed and those of its first five qualifying links in
\* document order, each called one level deep, and no other page was requested.
C4_Scenario ==
    (world.kind = "scen" /\ AllDone) =>
       /\ {At(p).url : p \in {q \in Places : At(q).ev = "save"}} = ScenarioExpected
       /\ {At(p).url : p \in {q \in Places : At(q).ev = "get"}} = ScenarioExpected
       /\ {f \in DOMAIN files : files[f].kind = "html"}
             = {PageFileOf(u) : u \in ScenarioExpected}
       /\ Cardinality(ScenarioExpected) = 6
       /\ \A p \in Places : At(p).ev = "save" /\ At(p).url # BaseOrigin \o W(<<"Q">>)
                              => At(p).depth = 1
       /\ \A p \in Places : At(p).ev = "ret" /\ At(p).url = BaseOrigin \o W(<<"Q">>)
                              => At(p).val = Some(BASE_ARCHIVE \o <<"/", "Q">>)

\* the crawl of a seed has returned, a link that does not qualify standing
\* among its first five links
C4_Witness ==
    /\ world.kind = "scen"
    /\ AllDone
    /\ \E b \in world.bad : b <= 5
    /\ Cardinality({f \in DOMAIN files : files[f].kind = "html"}) = 6

(***************************************************************************)
(* C5: the number of image files                                           *)
(***************************************************************************)
\* the image files of a directory
ImagesIn(d) == {f \in DOMAIN files : files[f].kind = "image" /\ DirOf(f) = d}

\* the image requests of the page u that were answered 200 (and written)
ImagesWritten(u) == {p \in PlacesOf("img", u) : At(p).val.ok}

\* the save_page calls whose images folder is d
SavesInto(d) == {p \in Places : At(p).ev = "save" /\ DirPath(ImgFolder(At(p).s)) = d}

\* C5 as claimed: every images/ directory holds at most IMAGE_LIMIT (5) image
\* files after any sequence of crawl operations.
C5_AtMostFiveFilesPerFolder == \A d \in dirs : Cardinality(ImagesIn(d)) <= 5

\* C5 as amended: every save_page call writes at most IMAGE_LIMIT (5) image
\* files, whatever the number of img elements of its page, and an images/
\* directory written by one save_page call only holds at most 5 image files.
C5_AtMostFiveFilesPerSave ==
    /\ \A u \in LoggedUrls : Cardinality(ImagesWritten(u)) <= 5
    /\ \A d \in dirs : Cardinality(SavesInto(d)) <= 1 => Cardinality(ImagesIn(d)) <= 5

\* save_page has written five images of the page "A", which holds seven img
\* elements with a source, and has left the loop
C5_Witness ==
    /\ Cardinality(ImagesWritten(urljoin(W(<<"A">>)))) = 5
    /\ Cardinality(ImagesIn(BASE_ARCHIVE \o <<"/", "A", "/">> \o ImagesDir)) = 5
    /\ \E t \in Threads : Running(t, "links") /\ Top(t).url = urljoin(W(<<"A">>))

(***************************************************************************)
(* C6, C7: clean_html                                                      *)
(***************************************************************************)
\* an element of this name and these classes matches the boilerplate denylist
\* .navbox, .metadata, .mw-references-wrap, script, style, .toc, .infobox,
\* header, footer, .mw-editsection, .sistersitebox
IsBoilerplate(name, cls) ==
    \/ name \in {"script", "style", "header", "footer"}
    \/ \E c \in cls : c \in {"navbox", "metadata", "mw-references-wrap", "toc",
                             "infobox", "mw-editsection", "sistersitebox"}

\* the nodes left in the tree clean_html returned
Kept == {i \in 1..Len(output.soup.doc) : i \notin output.soup.gone}

\* C6: the tree clean_html returns holds no element matching the boilerplate
\* denylist, and neither does the markup written from it, wherever the element
\* stood in the page (inside another denylisted element included); the
\* elements and the text that lie in no denylisted element are kept.
C6_NoBoilerplateLeft ==
    output.done =>
       /\ \A i \in Kept :
             output.soup.doc[i].kind = "tag" =>
                ~IsBoilerplate(output.soup.doc[i].name, output.soup.doc[i].cls)
       /\ \A k \in 1..Len(output.page) :
             output.page[k].t \in {"start", "startend", "end"} =>
                ~IsBoilerplate(output.page[k].name, output.page[k].cls)
       /\ \A i \in 1..Len(input.html) :
             (/\ input.html[i].kind \in {"tag", "text"}
              /\ \A j \in Ancestors(input.html, i) :
                    ~IsBoilerplate(input.html[j].name, input.html[j].cls)
                    \/ input.html[j].kind # "tag") => i \in Kept

\* clean_html has cleaned a page in which a denylisted element lies inside a
\* denylisted element of another selector, beside an element that is kept
C6_Witness ==
    /\ output.done
    /\ Len(input.html) = 3
    /\ input.html[1] = Tag("div", {"navbox"}, 0)
    /\ input.html[2] = Tag("footer", {}, 1)
    /\ input.html[3] = Tag("div", {}, 0)
    /\ Kept = {3}

\* C7: the tree clean_html returns, and the page.html written from it, hold
\* no comment node.
C7_NoCommentLeft ==
    output.done =>
       /\ \A i \in Kept : output.soup.doc[i].kind # "comment"
       /\ \A k \in 1..Len(output.page) : output.page[k].t # "comment"

(***************************************************************************)
(* C8: a page whose fetch fails                                            *)
(***************************************************************************)
FailedGets == {p \in Places : At(p).ev = "get" /\ At(p).status # "200"}

\* the entries of one kind in the log of thread t
CountOf(t, ev) == Cardinality({k \in 1..Len(log[t]) : log[t][k].ev = ev})

\* the article links of the cleaned page at u, in document order
ArticleLinksOf(u) ==
    LET soup == clean_html(Body(world, u))
        as   == find_all_a_href(soup)
    IN  SelectSeq([k \in 1..Len(as) |-> soup.doc[as[k]].href], IsArticleHref)

Min(a, b) == IF a <= b THEN a ELSE b

\* C8: a call whose page GET ends with a status other than 200 or with an
\* exception returns None at once: it saves nothing, requests no image and
\* recurses into no link.  Nothing else is undone: every call of a thread that
\* has not returned is still on its stack, and the call that fetched a page
\* returns the page's own folder after the calls on its first (up to five)
\* article links, whether those calls failed or not.
C8_FetchFailureContained ==
    /\ \A p \in FailedGets :
          /\ p[2] < Len(log[p[1]])
          /\ LET r == log[p[1]][p[2] + 1]
             IN  /\ r.ev = "ret" /\ r.url = At(p).url /\ r.depth = At(p).depth
                 /\ r.val = None
          /\ \A q \in Places :
                /\ At(q).url = At(p).url => At(q).ev \notin {"save", "img"}
                /\ At(q).ev = "call" /\ At(q).depth > 0 => At(q).parent # At(p).url
    /\ \A t \in Threads : Len(stack[t]) = CountOf(t, "call") - CountOf(t, "ret")
    /\ \A p \in Places :
          (/\ At(p).ev = "ret"
           /\ log[p[1]][p[2] - 1].ev # "skip"
           /\ \E q \in PlacesOf("get", At(p).url) : At(q).status = "200") =>
             /\ At(p).val.ok
             /\ At(p).val.path = BASE_ARCHIVE \o <<"/">> \o TitleOf(At(p).url)
             /\ Cardinality(CallsFrom(At(p).url)) = Min(5, Len(ArticleLinksOf(At(p).url)))

\* a page has returned its folder after a call on one of its links ended with
\* a 404 and was followed by a call on the next link, and a page has returned
\* its folder after a call on one of its links raised
C8_Witness ==
    /\ \E p \in FailedGets :
          /\ At(p).status = "404" /\ At(p).depth > 0
          /\ \E q \in CallsFrom(At(p).parent) : q[1] = p[1] /\ q[2] > p[2]
          /\ \E q \in PlacesOf("ret", At(p).parent) : At(q).val.ok
    /\ \E p \in FailedGets :
          /\ At(p).status = "exc" /\ At(p).depth > 0
          /\ \E q \in PlacesOf("ret", At(p).parent) : At(q).val.ok

(***************************************************************************)
(* C9, C10: the images of save_page                                        *)
(***************************************************************************)
FailedImgs == {p \in Places : At(p).ev = "img" /\ At(p).status # "200"}

\* the img elements of the tree saved for the page at u, in document order:
\* the sources, and whether the element has one
ImgsOf(u) ==
    LET soup == clean_html(Body(world, u))
        is   == find_all_img(soup)
    IN  [k \in 1..Len(is) |-> soup.doc[is[k]]]

\* the image loop of the page at u is over
LoopOver(u) ==
    \/ \E p \in PlacesOf("ret", u) : At(p).val.ok
    \/ \E t \in Threads : \E k \in 1..Len(stack[t]) :
          stack[t][k].url = u /\ stack[t][k].pc = "links"

\* the successful downloads logged before the place p for the page of p
WrittenBefore(p) == {q \in ImagesWritten(At(p).url) : q[1] = p[1] /\ q[2] < p[2]}

\* C9: an image whose request ends with a status other than 200 or raises
\* writes no file and leaves the save going: page.html is there already, the
\* count of downloads stays the number of successful ones, every later image
\* with a source is requested until five have succeeded, and the call that
\* saved the page returns the folder.
C9_ImageFailureSkipped ==
    /\ \A p \in FailedImgs :
          /\ At(p).val = None
          /\ \E k \in 1..p[2] :
                /\ log[p[1]][k].ev = "save" /\ log[p[1]][k].url = At(p).url
                /\ PathJoin(log[p[1]][k].s, PageHtml) \in DOMAIN files
    /\ \A t \in Threads : \A k \in 1..Len(stack[t]) :
          stack[t][k].pc = "images" =>
             stack[t][k].img_count = Cardinality(ImagesWritten(stack[t][k].url))
    /\ \A u \in LoggedUrls :
          LoopOver(u) =>
             \A i \in 1..Len(ImgsOf(u)) :
                (ImgsOf(u)[i].hasSrc /\ ImgsOf(u)[i].src # <<>>) =>
                   \/ \E p \in PlacesOf("img", u) : At(p).n = i - 1
                   \/ Cardinality({q \in ImagesWritten(u) : At(q).n < i - 1}) >= 5
    /\ \A p \in Places :
          At(p).ev = "save" =>
             \A q \in PlacesOf("ret", At(p).url) :
                log[q[1]][q[2] - 1].ev # "skip" => At(q).val = Some(At(p).s)

\* the page "A" was saved and returned its folder with five images written,
\* after one image request answered 404 and another one raised
C9_Witness ==
    LET u == urljoin(W(<<"A">>))
    IN  /\ \E p \in FailedImgs : At(p).url = u /\ At(p).status = "404"
        /\ \E p \in FailedImgs : At(p).url = u /\ At(p).status = "exc"
        /\ Cardinality(ImagesWritten(u)) = 5
        /\ \E p \in PlacesOf("ret", u) : At(p).val.ok

\* C10: an image file is named img_{i}{ext}, i being the position (from 0) of
\* its img element among all the img elements of the saved tree, those
\* without a source and those whose download failed included; and no image
\* is requested once five downloads have succeeded.
C10_IndexNamesAndStop ==
    /\ \A p \in Places :
          (At(p).ev = "img" /\ At(p).val.ok) =>
             LET imgs == ImgsOf(At(p).url)
                 i    == At(p).n
             IN  /\ i + 1 <= Len(imgs)
                 /\ imgs[i + 1].hasSrc
                 /\ ResolveSrc(imgs[i + 1].src) = At(p).s
                 /\ At(p).val.path = <<"i", "m", "g", "_">> \o Digits(i) \o ExtOf(At(p).s)
                 /\ \E f \in DOMAIN files :
                       /\ files[f].kind = "image"
                       /\ f = BASE_ARCHIVE \o <<"/">> \o TitleOf(At(p).url)
                                \o <<"/", "i", "m", "a", "g", "e", "s", "/">> \o At(p).val.path
    /\ \A p \in Places : At(p).ev = "img" => Cardinality(WrittenBefore(p)) < 5

\* the page "A" has returned: its first img element has no source and its
\* second one failed, so that the five files are img_2 to img_6, and its
\* eighth img element was never requested
C10_Witness ==
    LET u == urljoin(W(<<"A">>))
    IN  /\ \E p \in PlacesOf("ret", u) : At(p).val.ok
        /\ {At(p).n : p \in ImagesWritten(u)} = {2, 3, 4, 5, 6}
        /\ \A p \in PlacesOf("img", u) : At(p).n # 7
        /\ ImgsOf(u)[8].hasSrc

(***************************************************************************)
(* C11: the extension of an image file                                     *)
(***************************************************************************)
\* the extension of the path of a URL, the path ending where the query
\* string starts
PathExtOf(src) == SplitExt(Split(src, "?")[1])

\* C11: the file of an image downloaded with status 200 is named with the
\* extension of the path of its URL, the query string stripped, whatever
\* characters (dots included) the query string holds.
C11_ExtIsPathExtension ==
    \A p \in Places :
       (At(p).ev = "img" /\ At(p).val.ok) =>
          At(p).val.path = ImgStem \o Digits(At(p).n) \o PathExtOf(At(p).s)

(***************************************************************************)
(* C12: safe_folder_name                                                   *)
(***************************************************************************)
\* the characters of [A-Za-z0-9_-]
SafeAscii == AsciiLetters \cup AsciiDigits \cup {"_", "-"}

\* C12: safe_folder_name returns a string of the length of the title, in
\* which every character of [A-Za-z0-9_-] is kept and every other character
\* is replaced by "_", so that the result holds characters of [A-Za-z0-9_-]
\* only.
C12_OnlySafeAscii ==
    output.done =>
       /\ Len(output.name) = Len(input.title)
       /\ \A k \in 1..Len(input.title) :
             /\ input.title[k] \in SafeAscii => output.name[k] = input.title[k]
             /\ input.title[k] \notin SafeAscii => output.name[k] = "_"
             /\ output.name[k] \in SafeAscii

(***************************************************************************)
(* C13: the three buttons of the viewer                                    *)
(***************************************************************************)
\* the page.html of the folder loaded last
LoadedHtml == PathJoin(app.folder, PageHtml)

\* the names of the image files under images/ of the folder loaded last
LoadedImages == {Basename(f) : f \in ImagesIn(PathJoin(app.folder, ImagesDir))}

\* C13: after an archived folder is loaded with one of its buttons, the
\* viewer shows page.html verbatim for the button "Default", the plain text
\* re-derived from page.html for the button "*text", and the image files
\* under images/ for the button "*image".
C13_ModeSelectsDisplay ==
    (app.button # "" /\ LoadedHtml \in DOMAIN files) =>
       /\ app.button = "Default" =>
             /\ app.text_widget = files[LoadedHtml].data
             /\ app.image_labels = {}
       /\ app.button = "*text" =>
             /\ app.text_widget = get_text(files[LoadedHtml].data)
             /\ app.image_labels = {}
       /\ app.button = "*image" =>
             /\ app.image_labels = LoadedImages
             /\ app.text_widget = <<>>

(***************************************************************************)
(* C18: the stop flag of the auto-archive                                  *)
(***************************************************************************)
\* the archive thread can take its next step of crawl_page or save_page: it
\* waits for nothing but the lock
ArchiveCrawlGoesOn ==
    LET f == Top(ArchiveThread)
    IN  /\ f.pc \in {"acquire", "check", "add", "fetch", "save", "images", "links"}
        /\ f.pc = "acquire" => lock = 0
        /\ f.pc = "fetch" => Responses(world, f.url) # {}

\* the top-level calls the archive thread has made
SeedCalls == {k \in 1..Len(log[ArchiveThread]) :
                log[ArchiveThread][k].ev = "call" /\ log[ArchiveThread][k].depth = 0}

\* the page requests the archive thread has made
ArchiveGets == {k \in 1..Len(log[ArchiveThread]) : log[ArchiveThread][k].ev = "get"}

\* C18: the flag is consulted at the head of the loop over the start pages
\* only.  While the flag is cleared in the crawl of a start page, the crawl
\* goes on, and every page fetched in it returns its folder after the calls on
\* its first (up to five) article links: the descent is complete.  A start
\* page is crawled only if the flag was read set at the head of its iteration,
\* and once the flag was read cleared the thread is over: no later start page
\* is crawled, even when the flag is set again.
C18_StopOnlyBetweenSeeds ==
    /\ (app.pc = "crawl" /\ stack[ArchiveThread] # <<>>) => ArchiveCrawlGoesOn
    /\ \A p \in Places :
          (/\ At(p).ev = "ret"
           /\ log[p[1]][p[2] - 1].ev # "skip"
           /\ \E q \in PlacesOf("get", At(p).url) : At(q).status = "200") =>
             /\ At(p).val.ok
             /\ Cardinality(CallsFrom(At(p).url)) = Min(5, Len(ArticleLinksOf(At(p).url)))
    /\ Len(stack[ArchiveThread]) = CountOf(ArchiveThread, "call") - CountOf(ArchiveThread, "ret")
    /\ stack[ArchiveThread] # <<>> => app.pc = "crawl"
    /\ Cardinality(SeedCalls) = Cardinality({k \in 1..Len(app.observed) : app.observed[k]})
    /\ \A k \in 1..Len(app.observed) :
          ~app.observed[k] => k = Len(app.observed) /\ app.pc = "done"
    /\ \A k \in 1..Len(app.observed) :
          app.observed[k] => start_pages[k] = log[ArchiveThread][Ascending(SeedCalls)[k]].s

\* the flag was cleared in the crawl of the first start page before its last
\* page requests, the crawl returned the folder after the calls on both links
\* of the page, the loop read the flag cleared before the second start page,
\* and the flag was set again afterwards
C18_Witness ==
    /\ \E c \in app.cleared : c.page = 1 /\ c.gets = 1
    /\ Cardinality(ArchiveGets) = 3
    /\ \E p \in PlacesOf("ret", BaseOrigin \o start_pages[1]) : At(p).val.ok
    /\ Cardinality(CallsFrom(BaseOrigin \o start_pages[1])) = 2
    /\ app.observed = <<TRUE, FALSE>>
    /\ app.pc = "done"
    /\ app.auto_archive
    /\ Cardinality(SeedCalls) = 1

(***************************************************************************)
(* C14: the images considered for download                                 *)
(***************************************************************************)
\* the img elements of the page fetched at u, in document order
FetchedImgs(u) ==
    LET IsImg(node) == node.kind = "tag" /\ node.name = "img"
    IN  SelectSeq(Body(world, u), IsImg)

\* the sources requested for the page at u, in the order of the requests
RequestedSrcs(u) ==
    LET t    == CHOOSE t \in Threads : \E p \in PlacesOf("img", u) : p[1] = t
        IsReq(e) == e.ev = "img" /\ e.url = u
    IN  IF PlacesOf("img", u) = {} THEN <<>>
        ELSE [k \in 1..Len(SelectSeq(log[t], IsReq)) |-> SelectSeq(log[t], IsReq)[k].s]

\* the sources of the img elements of the page fetched at u that have one
FetchedSrcs(u) ==
    LET HasSrc(node) == node.hasSrc /\ node.src # <<>>
        imgs == SelectSeq(FetchedImgs(u), HasSrc)
    IN  [k \in 1..Len(imgs) |-> ResolveSrc(imgs[k].src)]

\* C14: when the image loop of a page is over, the sources requested are
\* those of the img elements of the fetched page, in document order and
\* wherever the elements stand in the page, up to the request that made the
\* fifth successful download.
C14_EveryImgConsidered ==
    \A u \in LoggedUrls :
       LoopOver(u) =>
          LET req == RequestedSrcs(u)
              all == FetchedSrcs(u)
          IN  /\ Len(req) <= Len(all)
              /\ req = SubSeq(all, 1, Len(req))
              /\ Len(req) < Len(all) => Cardinality(ImagesWritten(u)) >= 5

(***************************************************************************)
(* C15: depth-first, in document order                                     *)
(***************************************************************************)
\* the calls logged, and the place where the call logged at p returned (the
\* first return of its depth after it), or 0 while it is running
CallPlaces == {p \in Places : At(p).ev = "call"}

RetOf(p) ==
    LET rs == {k \in (p[2] + 1)..Len(log[p[1]]) :
                 log[p[1]][k].ev = "ret" /\ log[p[1]][k].depth = At(p).depth}
    IN  IF rs = {} THEN 0 ELSE CHOOSE k \in rs : \A j \in rs : k <= j

\* the place e lies in the crawl of the call logged at p
InCrawlOf(e, p) ==
    /\ e[1] = p[1]
    /\ e[2] > p[2]
    /\ RetOf(p) = 0 \/ e[2] <= RetOf(p)

\* the hrefs of the calls made from the page u, in the order of the calls
CalledFrom(u) ==
    LET ps == Ascending({p[2] : p \in CallsFrom(u)})
        t  == CHOOSE t \in Threads : \E p \in CallsFrom(u) : p[1] = t
    IN  [k \in 1..Len(ps) |-> log[t][ps[k]].s]

\* C15: the crawl is depth-first and synchronous, in document order.  The
\* calls made from a page are on its article links in document order.  Of two
\* calls made from one page, the first has returned before the second is
\* made, and whatever is logged between the first call and its return is
\* part of the crawl of that link or of its descendants: so every fetch and
\* save of the crawl of the first link comes before the fetch of the second.
\* Every call made from a page lies in the crawl of that page, after its
\* save: the page is saved before any of its links is fetched.
C15_DepthFirst ==
    /\ \A u \in LoggedUrls :
          CallsFrom(u) # {} =>
             CalledFrom(u) = SubSeq(ArticleLinksOf(u), 1, Len(CalledFrom(u)))
    /\ \A p \in CallPlaces : \A q \in CallPlaces :
          (/\ p[1] = q[1] /\ p[2] < q[2]
           /\ At(p).depth > 0 /\ At(q).depth = At(p).depth
           /\ At(p).parent = At(q).parent) =>
             /\ RetOf(p) # 0 /\ RetOf(p) < q[2]
             /\ \A k \in (p[2] + 1)..(RetOf(p) - 1) :
                   /\ log[p[1]][k].depth >= At(p).depth
                   /\ log[p[1]][k].depth = At(p).depth => log[p[1]][k].url = At(p).url
    /\ \A c \in CallPlaces :
          At(c).depth > 0 =>
             \E p \in CallPlaces :
                /\ At(p).url = At(c).parent /\ At(p).depth = At(c).depth - 1
                /\ InCrawlOf(c, p)
                /\ \E k \in (p[2] + 1)..(c[2] - 1) :
                      log[p[1]][k].ev = "save" /\ log[p[1]][k].url = At(p).url
    /\ \A e \in Places :
          At(e).ev \in {"get", "save", "img", "skip", "ret"} =>
             \E p \in CallPlaces :
                At(p).url = At(e).url /\ At(p).depth = At(e).depth /\ InCrawlOf(e, p)

\* the page "M" has returned: the call on its first link "A" was followed by
\* the fetch and the save of "A" and of "B/A", a page "A" links to, all of
\* them logged before the second call made from "M"
C15_Witness ==
    /\ world.kind = "rich"
    /\ \E p \in PlacesOf("ret", urljoin(W(<<"M">>))) : At(p).val.ok
    /\ \E p \in CallsFrom(urljoin(W(<<"M">>))) :
          /\ At(p).n = 1
          /\ \E q \in CallsFrom(urljoin(W(<<"M">>))) :
                /\ At(q).n = 2
                /\ \E g \in PlacesOf("save", urljoin(W(<<"B", "/", "A">>))) :
                      /\ At(g).depth = 2
                      /\ p[2] < g[2] /\ g[2] < RetOf(p) /\ RetOf(p) < q[2]

(***************************************************************************)
(* C16: the lock                                                           *)
(***************************************************************************)
\* the thread t is requesting a page or an image or writing a file, or is
\* about to
InIO(t) == Len(stack[t]) > 0 /\ Top(t).pc \in {"fetch", "save", "images"}

\* the thread t is in the check-and-insert of lines 84-87
InCheckAndInsert(t) == Len(stack[t]) > 0 /\ Top(t).pc \in {"check", "add"}

\* C16: the lock is held across the check-and-insert only.  The thread that
\* holds it is in its check-and-insert, and a thread that requests a page or
\* an image, writes a file or loops over the links of a page does not hold
\* it; so a thread that waits for the lock waits for a thread that is in its
\* check-and-insert, never for one that is in a fetch.
C16_LockOnlyAcrossCheckAndInsert ==
    /\ lock \in Threads \cup {0}
    /\ \A t \in Threads : lock = t <=> InCheckAndInsert(t)
    /\ \A t \in Threads : InIO(t) \/ Running(t, "links") => lock # t
    /\ \A t \in Threads :
          Running(t, "acquire") => lock = 0 \/ (lock # t /\ InCheckAndInsert(lock))

\* while a thread is in the fetch of a page, the other thread has made its
\* check-and-insert of another page and is in a fetch as well
C16_Witness ==
    /\ world.kind = "pair"
    /\ Running(1, "fetch") /\ Top(1).url = urljoin(W(<<"S">>))
    /\ Running(2, "fetch") /\ Top(2).url = urljoin(W(<<"T">>))
    /\ visited = {urljoin(W(<<"S">>)), urljoin(W(<<"T">>))}
    /\ lock = 0

(***************************************************************************)
(* C17: termination                                                        *)
(***************************************************************************)
\* the page requests made, and the normalized URLs crawl_page was called on
PageGets == {p \in Places : At(p).ev = "get"}

Submitted == {At(p).url : p \in CallPlaces}

\* the bound on the page requests: at most one for each normalized URL that
\* was submitted; and the depth of a call bounds nothing: whatever its depth,
\* a page that was fetched returns after the calls on its first (up to five)
\* article links
FetchesBounded ==
    /\ Cardinality(PageGets) <= Cardinality(Submitted)
    /\ \A p \in Places :
          (/\ At(p).ev = "ret"
           /\ log[p[1]][p[2] - 1].ev # "skip"
           /\ \E q \in PlacesOf("get", At(p).url) : At(q).status = "200") =>
             Cardinality(CallsFrom(At(p).url)) = Min(5, Len(ArticleLinksOf(At(p).url)))

\* C17: on a site of finitely many URLs, cycles and self-links included, every
\* top-level call of crawl_page eventually returns (every request being
\* answered), and at every moment the page requests made are at most as many
\* as the distinct normalized URLs submitted; the depth parameter bounds
\* nothing.
C17_Terminates == []FetchesBounded /\ <>[]AllDone

\* the crawl of the site whose pages link to themselves and to each other
\* (M to M, C to M, A to B/A) is over: it went two levels deep, a page was
\* called from itself, and as many pages were requested as URLs submitted, in
\* more calls than that
C17_Witness ==
    /\ world.kind = "rich"
    /\ AllDone
    /\ \E p \in CallPlaces : At(p).depth = 2
    /\ \E p \in CallPlaces : At(p).depth > 0 /\ At(p).parent = At(p).url
    /\ \E p \in PlacesOf("skip", urljoin(W(<<"M">>))) : At(p).depth = 2
    /\ Cardinality(PageGets) = Cardinality(Submitted)
    /\ Cardinality(CallPlaces) > Cardinality(Submitted)

(***************************************************************************)
(* C19: what a fan-out slot is spent on                                    *)
(***************************************************************************)
\* the call logged at p returned at the visited check
SkippedCall(p) == log[p[1]][p[2] + 1].ev = "skip"

\* the page at u has returned its folder
ReturnedFolder(u) == \E p \in PlacesOf("ret", u) : At(p).val.ok

\* C19: a page spends one of its five slots on each call it makes, whatever
\* the call does.  The calls a returned page has made are those on its first
\* five article links in document order, a link that is a duplicate, that was
\* visited already or whose fetch fails included, and the count of a call is
\* its rank among them; a page is requested from a page only through one of
\* these five calls.  So the page "C", whose first five article links are
\* visited when it is crawled, causes no request, although its sixth link "D"
\* is not visited.
C19_SlotSpentOnCall ==
    /\ \A u \in LoggedUrls :
          ReturnedFolder(u) =>
             CalledFrom(u) = SubSeq(ArticleLinksOf(u), 1, Min(5, Len(ArticleLinksOf(u))))
    /\ \A p \in CallPlaces :
          At(p).depth > 0 =>
             At(p).n = Cardinality({q \in CallsFrom(At(p).parent) : q[2] <= p[2]})
    /\ \A g \in PageGets :
          At(g).depth > 0 =>
             \E k \in 1..Min(5, Len(ArticleLinksOf(At(g).parent))) :
                At(g).url = urljoin(ArticleLinksOf(At(g).parent)[k])
    /\ world.kind = "rich" =>
          /\ \A g \in PageGets : At(g).parent # urljoin(W(<<"C">>))
          /\ \A p \in PlacesOf("call", urljoin(W(<<"D">>))) : At(p).depth = 0

\* the page "C" has returned its folder after five calls that were all
\* skipped, on links that are visited (one of them twice on the page, one the
\* page itself, one whose fetch had failed), while its sixth article link "D"
\* is not visited
C19_Witness ==
    LET c == urljoin(W(<<"C">>))
    IN  /\ world.kind = "rich"
        /\ ReturnedFolder(c)
        /\ Len(ArticleLinksOf(c)) = 6
        /\ Cardinality(CallsFrom(c)) = 5
        /\ \A p \in CallsFrom(c) : SkippedCall(p)
        /\ \E p \in FailedGets : At(p).url = urljoin(W(<<"B">>))
        /\ urljoin(ArticleLinksOf(c)[6]) \notin visited

(***************************************************************************)
(* C20: the folder of an archived page                                     *)
(***************************************************************************)
\* p is an immediate child of base_dir with a non-empty name
ChildOfBase(p) ==
    /\ Len(p) > Len(BASE_ARCHIVE) + 1
    /\ SubSeq(p, 1, Len(BASE_ARCHIVE) + 1) = BASE_ARCHIVE \o <<"/">>
    /\ \A k \in (Len(BASE_ARCHIVE) + 2)..Len(p) : p[k] # "/"

\* C20: the folder crawl_page writes and returns for a page it archives is an
\* immediate child directory of base_dir with a non-empty name, whatever the
\* href of the page (one that ends with "/" included): page.html and images/
\* are never created in base_dir itself.
C20_FolderIsChildOfBase ==
    /\ \A p \in Places : At(p).ev = "save" => ChildOfBase(At(p).s)
    /\ \A p \in Places : (At(p).ev = "ret" /\ At(p).val.ok) => ChildOfBase(At(p).val.path)
    /\ BASE_ARCHIVE \o <<"/">> \o PageHtml \notin DOMAIN files
    /\ BASE_ARCHIVE \o <<"/">> \o ImagesDir \notin dirs

=============================================================================
